---- MODULE Spec2Model ----
(***************************************************************************)
(* Model of Scripts/convert_itracker.py: the facegrid patch                *)
(* (expand_facegrid_input) as a function on a model spec, and main() as a  *)
(* linear pipeline over the file system.                                   *)
(*                                                                         *)
(* Weights are float32 values; they are represented by small integers,     *)
(* which float32 and float64 both hold exactly, so np.array (widening),    *)
(* tolist and floatValue.extend (narrowing) do not change them.            *)
(* Names are sequences of one-character strings so that str.lower() and    *)
(* the substring test of line 72 are computed, not assumed.                *)
(***************************************************************************)
EXTENDS Integers, Sequences, FiniteSets, TLC

VARIABLES pc, model, arg, calls, env, files, ioLog, steps, exitStatus

vars == <<pc, model, arg, calls, env, files, ioLog, steps, exitStatus>>

\* ------------------------------------------------------------------ bounds
MaxOut == 2
MaxLayers == 2
MaxCalls == 2

\* --------------------------------------------------------------- constants
OldSize == 625
NewSize == 628
QuantBits == 8

\* ------------------------------------------------------------------- names
facegrid == <<"f", "a", "c", "e", "g", "r", "i", "d">>
grid == <<"g", "r", "i", "d">>
FaceGridCaps == <<"F", "a", "c", "e", "G", "r", "i", "d">>
fg_GRID == <<"f", "g", "_", "G", "R", "I", "D">>
fc1 == <<"f", "c", "1">>
image_face == <<"i", "m", "a", "g", "e", "_", "f", "a", "c", "e">>

\* str.lower() on the alphabet the names use
LowerTable ==
    [A |-> "a", B |-> "b", C |-> "c", D |-> "d", E |-> "e", F |-> "f",
     G |-> "g", H |-> "h", I |-> "i", J |-> "j", K |-> "k", L |-> "l",
     M |-> "m", N |-> "n", O |-> "o", P |-> "p", Q |-> "q", R |-> "r",
     S |-> "s", T |-> "t", U |-> "u", V |-> "v", W |-> "w", X |-> "x",
     Y |-> "y", Z |-> "z"]

Lower(s) ==
    [i \in 1..Len(s) |-> IF s[i] \in DOMAIN LowerTable THEN LowerTable[s[i]] ELSE s[i]]

\* Python's `sub in s` on strings
Contains(sub, s) ==
    \E i \in 0..(Len(s) - Len(sub)) : SubSeq(s, i + 1, i + Len(sub)) = sub

\* line 72-73: any("facegrid" in inp.lower() or "grid" in inp.lower() ...)
ConnectsToFacegrid(layer) ==
    \E k \in 1..Len(layer.input) :
        \/ Contains(facegrid, Lower(layer.input[k]))
        \/ Contains(grid, Lower(layer.input[k]))

\* ------------------------------------------------------- input descriptors
\* the loop of lines 61-65 without its break: every such dimension changes
PatchDims_NoBreak(dims, old_size, new_size) ==
    [i \in 1..Len(dims) |-> IF dims[i] = old_size THEN new_size ELSE dims[i]]

\* lines 61-65: the first dimension equal to old_size becomes new_size
PatchDims(dims, old_size, new_size) ==
    IF \E i \in 1..Len(dims) : dims[i] = old_size
    THEN LET first == CHOOSE i \in 1..Len(dims) :
                          /\ dims[i] = old_size
                          /\ \A j \in 1..(i - 1) : dims[j] # old_size
         IN  [dims EXCEPT ![first] = new_size]
    ELSE dims

\* lines 56-65
PatchInputs(inputs, old_size, new_size) ==
    [k \in 1..Len(inputs) |->
        IF inputs[k].name = facegrid /\ inputs[k].type = "multiArrayType"
        THEN [inputs[k] EXCEPT !.shape = PatchDims(@, old_size, new_size)]
        ELSE inputs[k]]

\* ----------------------------------------------------------------- weights
\* line 81: weights.reshape(output_channels, old_size), row-major
Reshape(w, rows, cols) ==
    [r \in 1..rows |-> [c \in 1..cols |-> w[(r - 1) * cols + c]]]

\* line 83 with np.ones in place of np.zeros
Zeros_Ones(rows, cols) ==
    [r \in 1..rows |-> [c \in 1..cols |-> 1]]

\* line 83: np.zeros((output_channels, new_size - old_size))
Zeros(rows, cols) ==
    [r \in 1..rows |-> [c \in 1..cols |-> 0]]

\* line 85 with the two blocks in the other order
ConcatCols_PaddingFirst(A, B) ==
    [r \in 1..Len(A) |-> B[r] \o A[r]]

\* line 85: np.concatenate([weight_matrix, padding], axis=1)
ConcatCols(A, B) ==
    [r \in 1..Len(A) |-> A[r] \o B[r]]

\* line 87: expanded.flatten().tolist(), row-major: the rows one after another
RECURSIVE Flatten(_, _)
Flatten(M, rows) ==
    IF rows = 0 THEN <<>> ELSE Flatten(M, rows - 1) \o M[rows]

\* lines 79-87
PadWeights(w, output_channels, old_size, new_size) ==
    Flatten(ConcatCols(Reshape(w, output_channels, old_size),
                       Zeros(output_channels, new_size - old_size)),
            output_channels)

\* line 81 raises ValueError unless the sizes agree
ReshapeRaises(layer, old_size) ==
    Len(layer.weights) # layer.outputChannels * old_size

\* lines 74-87 without the assignment of line 77
PadLayer_WeightsOnly(layer, old_size, new_size) ==
    [layer EXCEPT !.weights = PadWeights(layer.weights, layer.outputChannels,
                                         old_size, new_size)]

\* lines 74-87: the edit of one layer
PadLayer(layer, old_size, new_size) ==
    [layer EXCEPT !.inputChannels = new_size,
                  !.weights = PadWeights(layer.weights, layer.outputChannels,
                                         old_size, new_size)]

\* lines 70-73
LayerMatches(layer) ==
    layer.kind = "innerProduct" /\ ConnectsToFacegrid(layer)

\* lines 69-91: the loop over nn.layers from index i; the break of line 91
\* is inside the test of line 76, so a matching layer with another channel
\* count does not end the scan
RECURSIVE ScanLayers(_, _, _, _)
ScanLayers(layers, i, old_size, new_size) ==
    IF i > Len(layers) THEN [raised |-> FALSE, layers |-> layers]
    ELSE IF LayerMatches(layers[i]) /\ layers[i].inputChannels = old_size
         THEN IF ReshapeRaises(layers[i], old_size)
              THEN [raised |-> TRUE, layers |-> layers]
              ELSE [raised |-> FALSE,
                    layers |-> [layers EXCEPT ![i] = PadLayer(@, old_size, new_size)]]
         ELSE ScanLayers(layers, i + 1, old_size, new_size)

\* lines 36-94: the value returned, or raised = TRUE when line 81 raises
expand_facegrid_input(m, old_size, new_size) ==
    LET scan == ScanLayers(m.layers, 1, old_size, new_size)
    IN  [raised |-> scan.raised,
         model  |-> [m EXCEPT !.inputs = PatchInputs(m.inputs, old_size, new_size),
                              !.layers = scan.layers]]

\* ------------------------------------------------- the layer a model runs
\* sum of row[k] * x[k] for k in lo..hi, halving the range
RECURSIVE Dot(_, _, _, _)
Dot(row, x, lo, hi) ==
    IF lo > hi THEN 0
    ELSE IF lo = hi THEN row[lo] * x[lo]
    ELSE LET mid == (lo + hi) \div 2
         IN  Dot(row, x, lo, mid) + Dot(row, x, mid + 1, hi)

\* an innerProduct layer computes W x + b, W being weights viewed row-major
\* as outputChannels x inputChannels (comment of line 78)
Forward(layer, x) ==
    LET W == Reshape(layer.weights, layer.outputChannels, layer.inputChannels)
    IN  [r \in 1..layer.outputChannels |->
            Dot(W[r], x, 1, layer.inputChannels) + layer.bias[r]]

\* ------------------------------------------- model specs the patch is given
Weight(seed, k) == ((3 * k + seed) % 5) - 2

MkLayer(kind, input, ic, oc, len, seed) ==
    [kind           |-> kind,
     input          |-> input,
     inputChannels  |-> ic,
     outputChannels |-> oc,
     weights        |-> [k \in 1..len |-> Weight(seed, k)],
     bias           |-> [r \in 1..oc |-> seed + r]]

\* layers of a converted network: fed by facegrid with 625 channels or by a
\* blob whose name holds "GRID" (each with 1..MaxOut outputs), fed by
\* facegrid with 628 channels, not fed by the grid, of another kind, of
\* another width, and one whose weight sequence is one short
LayerChoices ==
    UNION { { MkLayer("innerProduct", <<facegrid>>, OldSize, oc, oc * OldSize, 1),
              MkLayer("innerProduct", <<fc1, fg_GRID>>, OldSize, oc, oc * OldSize, 3) }
            : oc \in 1..MaxOut }
    \cup { MkLayer("innerProduct", <<facegrid>>, NewSize, 1, NewSize, 2),
           MkLayer("innerProduct", <<fc1>>, OldSize, 1, OldSize, 4),
           MkLayer("convolution", <<facegrid>>, OldSize, 1, OldSize, 0),
           MkLayer("innerProduct", <<fg_GRID>>, 2, 1, 2, 1),
           MkLayer("innerProduct", <<facegrid>>, OldSize, 2, 2 * OldSize - 1, 2) }

LayerLists == UNION { [1..n -> LayerChoices] : n \in 0..MaxLayers }

MkInput(name, type, shape) == [name |-> name, type |-> type, shape |-> shape]

UsualInputs ==
    <<MkInput(image_face, "imageType", <<224, 224>>),
      MkInput(facegrid, "multiArrayType", <<OldSize>>)>>

\* spec.description.input of a converted network; shape holds
\* multiArrayType.shape, or height and width for an imageType
InputLists ==
    { UsualInputs,
      <<MkInput(facegrid, "multiArrayType", <<NewSize>>)>>,
      <<MkInput(facegrid, "multiArrayType", <<1, OldSize, OldSize>>)>>,
      <<MkInput(facegrid, "imageType", <<OldSize, OldSize>>)>>,
      <<MkInput(FaceGridCaps, "multiArrayType", <<OldSize>>),
        MkInput(facegrid, "multiArrayType", <<25, 25>>)>>,
      <<MkInput(image_face, "imageType", <<224, 224>>)>> }

MkModel(inputs, layers) ==
    [inputs            |-> inputs,
     layers            |-> layers,
     author            |-> "",
     short_description |-> "",
     license           |-> "",
     nbits             |-> 32]

\* the loop over the inputs and the loop over the layers read disjoint
\* parts of the spec: every layer list with the usual inputs, and every
\* input list with every layer list of at most one layer
Models ==
    { MkModel(UsualInputs, l) : l \in LayerLists }
    \cup { MkModel(i, l) : i \in InputLists,
                           l \in UNION { [1..n -> LayerChoices] : n \in 0..1 } }

NoModel == MkModel(<<>>, <<>>)

\* ---------------------------------------- expand_facegrid_input in isolation
output_path == "iTracker.mlpackage"
quantized_path == "iTracker_quantized.mlpackage"
OutputNames == {output_path, quantized_path}

\* what a path of the script directory holds
Absent == [state |-> "absent", content |-> NoModel]
Stale == [state |-> "stale", content |-> NoModel]
Partial == [state |-> "partial", content |-> NoModel]
Saved(m) == [state |-> "saved", content |-> m]

InitPatch ==
    /\ pc = "call"
    /\ model \in Models
    /\ arg = model
    /\ calls = 0
    /\ env = [coremltools |-> TRUE, prototxt |-> TRUE, caffemodel |-> TRUE,
              before |-> [f \in OutputNames |-> Absent]]
    /\ files = env.before
    /\ ioLog = <<>>
    /\ steps = <<>>
    /\ exitStatus = -1

\* a call that returns: the caller now holds the patched model
ExpandReturns ==
    /\ pc = "call"
    /\ calls < MaxCalls
    /\ LET r == expand_facegrid_input(model, OldSize, NewSize)
       IN  /\ ~r.raised
           /\ arg' = model
           /\ model' = r.model
    /\ calls' = calls + 1
    /\ UNCHANGED <<pc, env, files, ioLog, steps, exitStatus>>

\* a call in which line 81 raises: the caller's model is as it was
ExpandRaises ==
    /\ pc = "call"
    /\ calls < MaxCalls
    /\ expand_facegrid_input(model, OldSize, NewSize).raised
    /\ arg' = model
    /\ pc' = "raised"
    /\ calls' = calls + 1
    /\ UNCHANGED <<model, env, files, ioLog, steps, exitStatus>>

NextPatch == ExpandReturns \/ ExpandRaises

SpecPatch == InitPatch /\ [][NextPatch]_vars

\* ------------------------------------------------ properties of the patch
\* the last call returned: arg is the model it was given, model its result
Returned == pc = "call" /\ calls >= 1

LayerIdx == 1..Len(arg.layers)

\* layer i went from 625 to 628 input channels in the last call
PaddedAt(i) ==
    /\ arg.layers[i].kind = "innerProduct"
    /\ arg.layers[i].inputChannels = OldSize
    /\ model.layers[i].inputChannels = NewSize

\* C3: weight-padding correctness. In the patched layer, seen row-major as
\* O x 628, the first 625 columns of every row are the original O x 625
\* matrix and the last 3 columns are zero; bias and outputChannels are kept.
C3_PaddingCorrect ==
    Returned =>
        \A i \in LayerIdx :
            PaddedAt(i) =>
                LET a == arg.layers[i]
                    m == model.layers[i]
                    O == a.outputChannels
                IN  /\ Len(m.weights) = O * NewSize
                    /\ \A r \in 1..O :
                          /\ \A c \in 1..OldSize :
                                m.weights[(r - 1) * NewSize + c] =
                                    a.weights[(r - 1) * OldSize + c]
                          /\ \A c \in (OldSize + 1)..NewSize :
                                m.weights[(r - 1) * NewSize + c] = 0
                    /\ m.bias = a.bias
                    /\ m.outputChannels = O

C3_Witness ==
    /\ Returned
    /\ \E i \in LayerIdx :
          /\ PaddedAt(i)
          /\ arg.layers[i].outputChannels >= 2
          /\ model.layers[i].weights[NewSize + 1] # 0

\* 628-element inputs to the layer; tail is the value of the last 3 elements
XVector(seed, tail) ==
    [k \in 1..NewSize |-> IF k > OldSize THEN tail ELSE ((2 * k + seed) % 3) - 1]

XVectors == { XVector(seed, tail) : seed \in 0..1, tail \in 0..1 }

TailIsZero(x) == \A k \in (OldSize + 1)..NewSize : x[k] = 0

\* C4: numerical equivalence. On every 628-element input whose last 3
\* elements are 0, the patched layer's output equals the output of the layer
\* before the patch on the first 625 elements.
C4_SameOutput ==
    Returned =>
        \A i \in LayerIdx :
            PaddedAt(i) =>
                \A x \in XVectors :
                    TailIsZero(x) =>
                        Forward(model.layers[i], x) =
                            Forward(arg.layers[i], SubSeq(x, 1, OldSize))

C4_Witness ==
    /\ Returned
    /\ \E i \in LayerIdx :
          /\ PaddedAt(i)
          /\ arg.layers[i].outputChannels >= 2
          /\ \E x \in XVectors :
                /\ TailIsZero(x)
                /\ Forward(model.layers[i], x)[2] # arg.layers[i].bias[2]

\* the facegrid input descriptor of m reads [628]
FacegridIs628(m) ==
    /\ \E k \in 1..Len(m.inputs) :
          m.inputs[k].name = facegrid /\ m.inputs[k].type = "multiArrayType"
    /\ \A k \in 1..Len(m.inputs) :
          (m.inputs[k].name = facegrid /\ m.inputs[k].type = "multiArrayType")
              => m.inputs[k].shape = <<NewSize>>

\* C5 (as claimed): idempotence boundary. A model the patch has already
\* returned, whose facegrid input is already [628], comes back from a
\* further application with no input dimension, weights or inputChannels
\* changed.
C5_SecondPatchIsNoOp ==
    (Returned /\ calls >= 2 /\ FacegridIs628(arg)) => model = arg

\* the first fully-connected layer connected to the grid, 0 if there is none
FirstMatch(layers) ==
    IF \E i \in 1..Len(layers) : LayerMatches(layers[i])
    THEN CHOOSE i \in 1..Len(layers) :
            /\ LayerMatches(layers[i])
            /\ \A j \in 1..(i - 1) : ~LayerMatches(layers[j])
    ELSE 0

\* C7 (as claimed): first match wins. Only the first fully-connected layer
\* connected to the grid may be modified, every other layer is unchanged,
\* and if that layer's inputChannels is not 625 no layer changes at all.
C7_OnlyFirstMatch ==
    Returned =>
        LET fm == FirstMatch(arg.layers)
        IN  /\ \A i \in LayerIdx : i # fm => model.layers[i] = arg.layers[i]
            /\ (fm # 0 /\ arg.layers[fm].inputChannels # OldSize)
                   => model.layers = arg.layers

\* C8: input-descriptor patch. Number, order, names and types of the inputs
\* are kept; only a multiArray input named exactly "facegrid" changes, and
\* in it only the first dimension equal to 625, which becomes 628.
C8_InputPatch ==
    Returned =>
        /\ Len(model.inputs) = Len(arg.inputs)
        /\ \A k \in 1..Len(arg.inputs) :
              LET a == arg.inputs[k]
                  m == model.inputs[k]
              IN  /\ m.name = a.name
                  /\ m.type = a.type
                  /\ Len(m.shape) = Len(a.shape)
                  /\ ~(a.name = facegrid /\ a.type = "multiArrayType") => m = a
                  /\ \A j \in 1..Len(a.shape) :
                        m.shape[j] =
                            IF /\ a.name = facegrid
                               /\ a.type = "multiArrayType"
                               /\ a.shape[j] = OldSize
                               /\ \A h \in 1..(j - 1) : a.shape[h] # OldSize
                            THEN NewSize
                            ELSE a.shape[j]
                  /\ (a.name = facegrid /\ a.type = "multiArrayType"
                          /\ a.shape = <<OldSize>>) => m.shape = <<NewSize>>

C8_Witness ==
    /\ Returned
    /\ \E k \in 1..Len(arg.inputs) :
          /\ arg.inputs[k].shape = <<1, OldSize, OldSize>>
          /\ model.inputs[k].shape = <<1, NewSize, OldSize>>

ShapeInvariant(m) ==
    \A i \in 1..Len(m.layers) :
        m.layers[i].kind = "innerProduct" =>
            Len(m.layers[i].weights) =
                m.layers[i].outputChannels * m.layers[i].inputChannels

\* C9: the layer-shape invariant is preserved. If every fully-connected
\* layer had len(weights) = outputChannels * inputChannels before the call,
\* every one has it after; a padded layer has 628 channels and
\* outputChannels * 628 weights; inputChannels changes exactly when the
\* weights do.
C9_ShapePreserved ==
    (Returned /\ ShapeInvariant(arg)) =>
        /\ ShapeInvariant(model)
        /\ \A i \in LayerIdx :
              /\ PaddedAt(i) =>
                    Len(model.layers[i].weights) =
                        model.layers[i].outputChannels * NewSize
              /\ (model.layers[i].inputChannels # arg.layers[i].inputChannels)
                     <=> (model.layers[i].weights # arg.layers[i].weights)

C9_Witness ==
    /\ Returned
    /\ ShapeInvariant(arg)
    /\ \E i \in LayerIdx : PaddedAt(i) /\ arg.layers[i].outputChannels >= 2

\* ------------------------------------------------------------------ main()
\* networks the converter may return: the usual one, one already at 628,
\* one with two grid layers of different widths, one with a short weight
\* sequence, one without a facegrid
MainModels ==
    { MkModel(<<MkInput(image_face, "imageType", <<224, 224>>),
                MkInput(facegrid, "multiArrayType", <<OldSize>>)>>,
              <<MkLayer("innerProduct", <<facegrid>>, OldSize, 2, 2 * OldSize, 1),
                MkLayer("innerProduct", <<fc1>>, OldSize, 1, OldSize, 4)>>),
      MkModel(<<MkInput(facegrid, "multiArrayType", <<NewSize>>)>>,
              <<MkLayer("innerProduct", <<facegrid>>, NewSize, 1, NewSize, 2)>>),
      MkModel(<<MkInput(facegrid, "multiArrayType", <<OldSize>>)>>,
              <<MkLayer("innerProduct", <<fg_GRID>>, 2, 1, 2, 1),
                MkLayer("innerProduct", <<facegrid>>, OldSize, 1, OldSize, 1)>>),
      MkModel(<<MkInput(facegrid, "multiArrayType", <<OldSize>>)>>,
              <<MkLayer("innerProduct", <<facegrid>>, OldSize, 2, 2 * OldSize - 1, 2)>>),
      MkModel(<<MkInput(image_face, "imageType", <<224, 224>>)>>, <<>>) }

\* quantize_weights(model, nbits=8), linear mode: each layer's weights become
\* the codes 0..2^nbits - 1 of their place between the layer's min and max
QuantizeLayer(layer, nbits) ==
    LET vals  == { layer.weights[k] : k \in 1..Len(layer.weights) }
        lo    == CHOOSE v \in vals : \A u \in vals : v <= u
        hi    == CHOOSE v \in vals : \A u \in vals : v >= u
        top   == 2 ^ nbits - 1
    IN  IF vals = {} \/ lo = hi
        THEN [layer EXCEPT !.weights = [k \in 1..Len(layer.weights) |-> 0]]
        ELSE [layer EXCEPT !.weights =
                 [k \in 1..Len(layer.weights) |->
                     (2 * (layer.weights[k] - lo) * top + (hi - lo))
                         \div (2 * (hi - lo))]]

quantize_weights(m, nbits) ==
    [m EXCEPT !.nbits = nbits,
              !.layers = [i \in 1..Len(m.layers) |-> QuantizeLayer(m.layers[i], nbits)]]

\* sys.exit(1), or an exception nobody catches: the interpreter exits with 1
Exit1(step) ==
    /\ pc' = "done"
    /\ exitStatus' = 1
    /\ steps' = Append(steps, step)

Init ==
    /\ pc = "import"
    /\ model = NoModel
    /\ arg = NoModel
    /\ calls = 0
    /\ env \in [coremltools : BOOLEAN, prototxt : BOOLEAN, caffemodel : BOOLEAN,
                before : [OutputNames -> {Absent, Stale}]]
    /\ files = env.before
    /\ ioLog = <<>>
    /\ steps = <<>>
    /\ exitStatus = -1

\* lines 98-103 without the sys.exit of line 103
ImportCoremltools_NoExit ==
    /\ pc = "import"
    /\ pc' = "check_prototxt"
    /\ steps' = Append(steps, IF env.coremltools THEN "import" ELSE "import:missing")
    /\ UNCHANGED <<model, arg, calls, env, files, ioLog, exitStatus>>

\* lines 98-103
ImportCoremltools ==
    /\ pc = "import"
    /\ IF env.coremltools
       THEN /\ pc' = "check_prototxt"
            /\ steps' = Append(steps, "import")
            /\ UNCHANGED exitStatus
       ELSE Exit1("import:missing")
    /\ UNCHANGED <<model, arg, calls, env, files, ioLog>>

\* lines 105-113
CheckPrototxt ==
    /\ pc = "check_prototxt"
    /\ ioLog' = Append(ioLog, "exists:itracker_deploy.prototxt")
    /\ IF env.prototxt
       THEN /\ pc' = "check_caffemodel"
            /\ UNCHANGED <<steps, exitStatus>>
       ELSE Exit1("prototxt:missing")
    /\ UNCHANGED <<model, arg, calls, env, files>>

\* lines 115-118 without the sys.exit of line 118
CheckCaffemodel_NoExit ==
    /\ pc = "check_caffemodel"
    /\ ioLog' = Append(ioLog, "exists:itracker25x_iter_92000.caffemodel")
    /\ pc' = "convert"
    /\ UNCHANGED <<model, arg, calls, env, files, steps, exitStatus>>

\* lines 115-118
CheckCaffemodel ==
    /\ pc = "check_caffemodel"
    /\ ioLog' = Append(ioLog, "exists:itracker25x_iter_92000.caffemodel")
    /\ IF env.caffemodel
       THEN /\ pc' = "convert"
            /\ UNCHANGED <<steps, exitStatus>>
       ELSE Exit1("caffemodel:missing")
    /\ UNCHANGED <<model, arg, calls, env, files>>

\* lines 125-129: the converter reads both files and returns a model or raises
Convert ==
    /\ pc = "convert"
    /\ ioLog' = ioLog \o <<"read:itracker_deploy.prototxt",
                           "read:itracker25x_iter_92000.caffemodel">>
    /\ \/ /\ model' \in MainModels
          /\ pc' = "patch"
          /\ steps' = Append(steps, "convert")
          /\ UNCHANGED exitStatus
       \/ /\ Exit1("convert:raised")
          /\ UNCHANGED model
    /\ UNCHANGED <<arg, calls, env, files>>

\* line 133: raises when line 81 does, or when MLModel(spec) of line 94 does
PatchFacegrid ==
    /\ pc = "patch"
    /\ LET r == expand_facegrid_input(model, OldSize, NewSize)
       IN  \/ /\ ~r.raised
              /\ model' = r.model
              /\ arg' = model
              /\ calls' = calls + 1
              /\ pc' = "metadata"
              /\ steps' = Append(steps, "patch")
              /\ UNCHANGED exitStatus
           \/ /\ Exit1("patch:raised")
              /\ UNCHANGED <<model, arg, calls>>
    /\ UNCHANGED <<env, files, ioLog>>

\* lines 136-143
SetMetadata ==
    /\ pc = "metadata"
    /\ model' = [model EXCEPT
                    !.author = "MIT CSAIL (converted for FocusTracker)",
                    !.short_description = "iTracker CNN for gaze prediction.",
                    !.license = "Research use (GazeCapture dataset license)"]
    /\ pc' = "save"
    /\ steps' = Append(steps, "metadata")
    /\ UNCHANGED <<arg, calls, env, files, ioLog, exitStatus>>

\* lines 146-148 with the save inside the try of line 152
SaveModel_Caught ==
    /\ pc = "save"
    /\ ioLog' = Append(ioLog, "write:iTracker.mlpackage")
    /\ \/ /\ files' = [files EXCEPT ![output_path] = Saved(model)]
          /\ steps' = Append(steps, "save")
       \/ /\ files' \in {files, [files EXCEPT ![output_path] = Partial]}
          /\ steps' = Append(steps, "save:raised")
    /\ pc' = "quantize"
    /\ UNCHANGED <<model, arg, calls, env, exitStatus>>

\* lines 146-148: a failed save is not caught and may leave a partial package
SaveModel ==
    /\ pc = "save"
    /\ ioLog' = Append(ioLog, "write:iTracker.mlpackage")
    /\ \/ /\ files' = [files EXCEPT ![output_path] = Saved(model)]
          /\ pc' = "quantize"
          /\ steps' = Append(steps, "save")
          /\ UNCHANGED exitStatus
       \/ /\ files' \in {files, [files EXCEPT ![output_path] = Partial]}
          /\ Exit1("save:raised")
    /\ UNCHANGED <<model, arg, calls, env>>

\* lines 152-155 and 161-163: an exception here is caught
QuantizeWeights ==
    /\ pc = "quantize"
    /\ \/ /\ pc' = "save_quantized"
          /\ steps' = Append(steps, "quantize")
       \/ /\ pc' = "report"
          /\ steps' = Append(steps, "quantize:raised")
    /\ UNCHANGED <<model, arg, calls, env, files, ioLog, exitStatus>>

\* lines 156-163 with the save after the except clause
SaveQuantized_Uncaught ==
    /\ pc = "save_quantized"
    /\ ioLog' = Append(ioLog, "write:iTracker_quantized.mlpackage")
    /\ \/ /\ files' = [files EXCEPT ![quantized_path] =
                          Saved(quantize_weights(model, QuantBits))]
          /\ steps' = Append(steps, "save_quantized")
          /\ pc' = "report"
          /\ UNCHANGED exitStatus
       \/ /\ files' \in {files, [files EXCEPT ![quantized_path] = Partial]}
          /\ Exit1("save_quantized:raised")
    /\ UNCHANGED <<model, arg, calls, env>>

\* lines 156-163: an exception here is caught
SaveQuantized ==
    /\ pc = "save_quantized"
    /\ ioLog' = Append(ioLog, "write:iTracker_quantized.mlpackage")
    /\ \/ /\ files' = [files EXCEPT ![quantized_path] =
                          Saved(quantize_weights(model, QuantBits))]
          /\ steps' = Append(steps, "save_quantized")
       \/ /\ files' \in {files, [files EXCEPT ![quantized_path] = Partial]}
          /\ steps' = Append(steps, "save_quantized:raised")
    /\ pc' = "report"
    /\ UNCHANGED <<model, arg, calls, env, exitStatus>>

\* lines 165-169, then main returns and the interpreter exits with 0
Report ==
    /\ pc = "report"
    /\ pc' = "done"
    /\ exitStatus' = 0
    /\ steps' = Append(steps, "report")
    /\ UNCHANGED <<model, arg, calls, env, files, ioLog>>

Next ==
    \/ ImportCoremltools
    \/ CheckPrototxt
    \/ CheckCaffemodel
    \/ Convert
    \/ PatchFacegrid
    \/ SetMetadata
    \/ SaveModel
    \/ QuantizeWeights
    \/ SaveQuantized
    \/ Report

Spec == Init /\ [][Next]_vars

\* ----------------------------------------------------- properties of main()
InSteps(step) == \E k \in 1..Len(steps) : steps[k] = step

Logged(event) == \E k \in 1..Len(ioLog) : ioLog[k] = event

NothingWritten ==
    /\ ~Logged("write:iTracker.mlpackage")
    /\ ~Logged("write:iTracker_quantized.mlpackage")
    /\ files = env.before

\* C1: with either input file absent, a finished run has exit status 1, and
\* no run converts, patches, saves or quantizes, or writes an output file.
C1_MissingInputExits1 ==
    (~env.prototxt \/ ~env.caffemodel) =>
        /\ pc = "done" => exitStatus = 1
        /\ pc # "done" => ENABLED Next
        /\ pc \in {"import", "check_prototxt", "check_caffemodel", "done"}
        /\ NothingWritten
        /\ \A k \in 1..Len(steps) :
              steps[k] \in {"import", "import:missing",
                            "prototxt:missing", "caffemodel:missing"}

C1_Witness ==
    /\ pc = "done"
    /\ env.coremltools /\ env.prototxt /\ ~env.caffemodel
    /\ exitStatus = 1
    /\ Logged("exists:itracker25x_iter_92000.caffemodel")

QuantizationFailed ==
    InSteps("quantize:raised") \/ InSteps("save_quantized:raised")

\* C2: when quantize_weights or the save of the quantized model raises, the
\* full-precision package is still the one saved before quantization, the
\* run goes on to the report, and it ends with exit status 0.
C2_QuantizationFailureHarmless ==
    QuantizationFailed =>
        /\ files[output_path] = Saved(model)
        /\ pc \in {"report", "done"}
        /\ pc = "done" => (exitStatus = 0 /\ steps[Len(steps)] = "report")

C2_Witness ==
    /\ pc = "done"
    /\ InSteps("save_quantized:raised")
    /\ files[output_path].state = "saved"
    /\ exitStatus = 0

\* C6: nothing touches a file before the import check has passed; with the
\* library absent the run ends with exit status 1 and an empty I/O log.
C6_ImportCheckFirst ==
    /\ ioLog # <<>> => (Len(steps) >= 1 /\ steps[1] = "import")
    /\ ~env.coremltools =>
          /\ ioLog = <<>>
          /\ files = env.before
          /\ pc = "done" => exitStatus = 1
          /\ pc \in {"import", "done"}

C6_Witness ==
    /\ pc = "done"
    /\ ~env.coremltools /\ env.prototxt /\ env.caffemodel
    /\ exitStatus = 1
    /\ ioLog = <<>>

\* C10: pipeline order. The full-precision package is written only after
\* convert, patch and metadata in that order; the quantized package only
\* after the full-precision one was saved; a failed conversion or patch
\* leaves no output written; after a failed save quantization is not tried.
C10_PipelineOrder ==
    /\ Logged("write:iTracker.mlpackage") =>
          (Len(steps) >= 4 /\
           SubSeq(steps, 1, 4) = <<"import", "convert", "patch", "metadata">>)
    /\ Logged("write:iTracker_quantized.mlpackage") =>
          /\ Len(steps) >= 6
          /\ SubSeq(steps, 5, 6) = <<"save", "quantize">>
          /\ files[output_path] = Saved(model)
    /\ (InSteps("convert:raised") \/ InSteps("patch:raised")) =>
          (NothingWritten /\ pc = "done" /\ exitStatus = 1)
    /\ InSteps("save:raised") =>
          /\ ~InSteps("quantize") /\ ~InSteps("quantize:raised")
          /\ ~Logged("write:iTracker_quantized.mlpackage")
          /\ files[quantized_path] = env.before[quantized_path]
          /\ pc = "done" /\ exitStatus = 1

C10_Witness ==
    /\ pc = "done"
    /\ exitStatus = 0
    /\ files[output_path].state = "saved"
    /\ files[quantized_path].state = "saved"
    /\ files[quantized_path].content.nbits = QuantBits
    /\ files[output_path].content.layers # arg.layers

====
